---- MODULE Spec2Model ----
(***************************************************************************)
(* Model of the iob-soc OpenSBI platform support                           *)
(* (software/opensbi_platform/iob_soc/platform.c): the four file-scope     *)
(* configuration records (uart, plic, mswi, mtimer), the device-tree       *)
(* override performed by iob_soc_early_init, and the six platform hooks    *)
(* run by every hart under the host firmware's boot protocol.              *)
(*                                                                         *)
(* Addresses are 64-bit unsigned values (unsigned long / uint64_t on the   *)
(* riscv64 build).  They are kept as four 16-bit limbs, most significant   *)
(* first, so that 0xF4000000 and sums that wrap at 2^64 are represented    *)
(* exactly.                                                                *)
(***************************************************************************)
EXTENDS Integers, Sequences, FiniteSets, TLC

(***************************************************************************)
(* Bounds of the model.                                                    *)
(***************************************************************************)
\* number of harts the host framework runs through the hook table
NumHarts == 2

Harts == 0 .. (NumHarts - 1)

\* number of times iob_soc_early_init may be entered on the cold-boot hart
\* when the host is allowed to repeat the call
MaxEarlyCalls == 2

(***************************************************************************)
(* 64-bit unsigned arithmetic on limbs.                                    *)
(***************************************************************************)
LIMB == 2 ^ 16

U64(w3, w2, w1, w0) == <<w3, w2, w1, w0>>

\* a small offset (< 2^16) widened to 64 bits
Off(n) == U64(0, 0, 0, n)

\* a + b modulo 2^64 (C unsigned addition)
Add64(a, b) ==
  LET s0 == a[4] + b[4]
      s1 == a[3] + b[3] + (s0 \div LIMB)
      s2 == a[2] + b[2] + (s1 \div LIMB)
      s3 == a[1] + b[1] + (s2 \div LIMB)
  IN  U64(s3 % LIMB, s2 % LIMB, s1 % LIMB, s0 % LIMB)

\* TRUE iff the mathematical sum a + b does not fit in 64 bits
Carry64(a, b) ==
  LET s0 == a[4] + b[4]
      s1 == a[3] + b[3] + (s0 \div LIMB)
      s2 == a[2] + b[2] + (s1 \div LIMB)
      s3 == a[1] + b[1] + (s2 \div LIMB)
  IN  s3 >= LIMB

(***************************************************************************)
(* Compile-time constants of the board (platform.c lines 26-35) and the    *)
(* ACLINT/CLINT layout constants of the driver headers.                    *)
(***************************************************************************)
IOB_SOC_PLIC_ADDR == U64(0, 0, 64512, 0)            \* 0xFC000000
IOB_SOC_PLIC_NUM_SOURCES == 32
IOB_SOC_HART_COUNT == 1
IOB_SOC_CLINT_ADDR == U64(0, 0, 63488, 0)           \* 0xF8000000
IOB_SOC_ACLINT_MTIMER_FREQ == 100000000
IOB_SOC_UART_ADDR == U64(0, 0, 62464, 0)            \* 0xF4000000
IOB_SOC_UART_INPUT_FREQ == 100000000
IOB_SOC_UART_BAUDRATE == 115200

CLINT_MSWI_OFFSET == 0                              \* 0x0000
CLINT_MTIMER_OFFSET == 16384                        \* 0x4000
ACLINT_DEFAULT_MTIME_OFFSET == 32760                \* 0x7ff8
ACLINT_DEFAULT_MTIMECMP_OFFSET == 0                 \* 0x0000
ACLINT_MSWI_SIZE == 16384                           \* 0x4000
ACLINT_DEFAULT_MTIME_SIZE == 8                      \* 0x0008
ACLINT_DEFAULT_MTIMECMP_SIZE == 32760               \* 0x7ff8

IOB_SOC_ACLINT_MSWI_ADDR == Add64(IOB_SOC_CLINT_ADDR, Off(CLINT_MSWI_OFFSET))
IOB_SOC_ACLINT_MTIMER_ADDR == Add64(IOB_SOC_CLINT_ADDR, Off(CLINT_MTIMER_OFFSET))

(***************************************************************************)
(* The compiled default records (static initialisers, lines 37-65).        *)
(***************************************************************************)
DefaultUart ==
  [addr |-> IOB_SOC_UART_ADDR,
   freq |-> IOB_SOC_UART_INPUT_FREQ,
   baud |-> IOB_SOC_UART_BAUDRATE]

DefaultPlic ==
  [addr |-> IOB_SOC_PLIC_ADDR,
   num_src |-> IOB_SOC_PLIC_NUM_SOURCES]

DefaultMswi ==
  [addr |-> IOB_SOC_ACLINT_MSWI_ADDR,
   size |-> ACLINT_MSWI_SIZE,
   first_hartid |-> 0,
   hart_count |-> IOB_SOC_HART_COUNT]

DefaultMtimer ==
  [mtime_freq |-> IOB_SOC_ACLINT_MTIMER_FREQ,
   mtime_addr |-> Add64(IOB_SOC_ACLINT_MTIMER_ADDR, Off(ACLINT_DEFAULT_MTIME_OFFSET)),
   mtime_size |-> ACLINT_DEFAULT_MTIME_SIZE,
   mtimecmp_addr |-> Add64(IOB_SOC_ACLINT_MTIMER_ADDR, Off(ACLINT_DEFAULT_MTIMECMP_OFFSET)),
   mtimecmp_size |-> ACLINT_DEFAULT_MTIMECMP_SIZE,
   first_hartid |-> 0,
   hart_count |-> IOB_SOC_HART_COUNT,
   has_64bit_mmio |-> TRUE]

(***************************************************************************)
(* What the device-tree decoders can answer.  A decoder returns rc = 0     *)
(* and a fully decoded value, or a non-zero rc, in which case the caller's *)
(* out-parameter (an uninitialised local of iob_soc_early_init) holds an   *)
(* arbitrary value.  The value sets are small samples of what a device     *)
(* tree may hold; every value differs from the compiled default, one       *)
(* combined base is close enough to 2^64 for the offset arithmetic to      *)
(* wrap, and one lies 0x4000 below the compiled serial address.            *)
(***************************************************************************)
DtUartValues ==
  { [addr |-> U64(0, 0, 4096, 0), freq |-> 50000000, baud |-> 9600] }

DtPlicValues ==
  { [addr |-> U64(0, 0, 3072, 0), num_src |-> 64] }

DtFreqValues == { 10000000 }

DtClintValues ==
  { U64(0, 0, 57344, 0),                            \* 0xE0000000
    U64(0, 0, 62463, 49152),                        \* 0xF3FFC000
    U64(65535, 65535, 65535, 61440) }               \* 0xFFFFFFFFFFFFF000

\* return codes of a device-tree decoder: 0, or a negative error
ParseRcs == { 0, -1 }

\* result codes a driver entry point may return besides 0
\* (SBI_EFAIL, SBI_EINVAL)
ErrCodes == { -1, -3 }

DriverRets == {0} \cup ErrCodes

Decodes(S) == [rc : ParseRcs, val : S]

FdtSet ==
  [uart : Decodes(DtUartValues),
   plic : Decodes(DtPlicValues),
   freq : Decodes(DtFreqValues),
   clint : Decodes(DtClintValues)]

\* the decoders, as seen by iob_soc_early_init: <<rc, out-parameter>>
fdt_parse_uart8250(f) == f.uart
fdt_parse_plic(f) == f.plic
fdt_parse_timebase_frequency(f) == f.freq
fdt_parse_compat_addr(f) == f.clint

(***************************************************************************)
(* State.                                                                  *)
(***************************************************************************)
Subsystems == {"irqchip", "ipi", "timer"}

VARIABLES
  fdt,          \* the device tree handed over by the boot loader (decoder answers)
  coldHart,     \* the hart the host framework elected for the cold boot
  reg,          \* the four file-scope records: uart, plic, mswi, mtimer
  pc,           \* per hart: the hook it is in and the place inside the hook
  rc,           \* per hart: local rc of iob_soc_early_init
  ret,          \* per hart: local ret of the irqchip/ipi/timer hooks
  result,       \* per hart: value returned to the host by the last hook
  parsed,       \* per hart: decoders iob_soc_early_init has called so far
  writers,      \* harts that have stored into reg
  coldCalls,    \* per subsystem: number of cold initializer calls issued
  coldDone,     \* per subsystem: a cold initializer call has returned
  coldOk,       \* per subsystem: a cold initializer call has returned 0
  warmCalls,    \* per hart and subsystem: number of warm initializer calls
  warmRet,      \* per hart: result of the last warm initializer call
  plicCtx,      \* per hart: context ids last passed to plic_warm_irqchip_init
  consoleCalls, \* number of uart8250_init calls
  consoleArgs,  \* base, in_freq, baudrate last passed to uart8250_init
  fixups,       \* number of fdt_fixups calls
  earlyCalls    \* per hart: number of times iob_soc_early_init was entered

vars ==
  <<fdt, coldHart, reg, pc, rc, ret, result, parsed, writers, coldCalls,
    coldDone, coldOk, warmCalls, warmRet, plicCtx, consoleCalls, consoleArgs,
    fixups, earlyCalls>>

At(hook, place) == [hook |-> hook, at |-> place]

DefaultReg ==
  [uart |-> DefaultUart,
   plic |-> DefaultPlic,
   mswi |-> DefaultMswi,
   mtimer |-> DefaultMtimer]

NoArgs == [base |-> U64(0, 0, 0, 0), in_freq |-> 0, baudrate |-> 0]

Init ==
  /\ fdt \in FdtSet
  /\ coldHart \in Harts
  /\ reg = DefaultReg
  /\ pc = [h \in Harts |-> At("boot", "done")]
  /\ rc = [h \in Harts |-> 0]
  /\ ret = [h \in Harts |-> 0]
  /\ result = [h \in Harts |-> 0]
  /\ parsed = [h \in Harts |-> {}]
  /\ writers = {}
  /\ coldCalls = [s \in Subsystems |-> 0]
  /\ coldDone = [s \in Subsystems |-> FALSE]
  /\ coldOk = [s \in Subsystems |-> FALSE]
  /\ warmCalls = [h \in Harts |-> [s \in Subsystems |-> 0]]
  /\ warmRet = [h \in Harts |-> 0]
  /\ plicCtx = [h \in Harts |-> <<0, 0>>]
  /\ consoleCalls = 0
  /\ consoleArgs = NoArgs
  /\ fixups = 0
  /\ earlyCalls = [h \in Harts |-> 0]

(***************************************************************************)
(* The host framework's side of the hook protocol: every hart calls the    *)
(* hooks of platform_ops in a fixed order and stops at the first hook that *)
(* returns non-zero; console_init is called by the cold-boot hart only;    *)
(* a hart that is not the cold-boot hart enters the hook of a subsystem    *)
(* only after the cold-boot hart's cold initializer for that subsystem has *)
(* returned successfully.                                                  *)
(***************************************************************************)
PrevHook(h, hook) ==
  CASE hook = "early" -> "boot"
    [] hook = "console" -> "early"
    [] hook = "irqchip" -> IF h = coldHart THEN "console" ELSE "early"
    [] hook = "ipi" -> "irqchip"
    [] hook = "timer" -> "ipi"
    [] hook = "final" -> "timer"

HostBarrier(h, hook) ==
  (hook \in Subsystems /\ h # coldHart) => coldOk[hook]

HostMayCall(h, hook) ==
  /\ pc[h] = At(PrevHook(h, hook), "done")
  /\ result[h] = 0
  /\ hook = "console" => h = coldHart
  /\ HostBarrier(h, hook)

(***************************************************************************)
(* iob_soc_early_init (lines 70-104).                                      *)
(***************************************************************************)
\* variant: the cold_boot test of line 78 is missing
EarlyRuns_Always(cold_boot) == TRUE

\* line 78: the body runs on the cold boot pass only
EarlyRuns(cold_boot) == cold_boot

\* variant: if (rc) in place of if (!rc)
Accept_Inverted(r) == r # 0

\* lines 83, 87, 91, 95: a decoded value is taken when rc is zero
Accept(r) == r = 0

\* variant: only the address of the decoded serial record is copied
UartOverride_AddrOnly(r, d) ==
  IF d.rc = 0 THEN [r EXCEPT !.uart.addr = d.val.addr] ELSE r

\* lines 82-84: uart = uart_data
UartOverride(r, d) ==
  IF Accept(d.rc) THEN [r EXCEPT !.uart = d.val] ELSE r

\* lines 86-88: plic = plic_data
PlicOverride(r, d) ==
  IF Accept(d.rc) THEN [r EXCEPT !.plic = d.val] ELSE r

\* variant: the tick frequency is stored as the serial input clock too
FreqOverride_AlsoUart(r, d) ==
  IF d.rc = 0
    THEN [r EXCEPT !.mtimer.mtime_freq = d.val, !.uart.freq = d.val]
    ELSE r

\* lines 90-92: mtimer.mtime_freq = aclint_freq
FreqOverride(r, d) ==
  IF Accept(d.rc) THEN [r EXCEPT !.mtimer.mtime_freq = d.val] ELSE r

\* variant: the combined base is stored into the interrupt controller too
MswiAddrStore_AlsoPlic(r, clint_addr) ==
  [r EXCEPT !.mswi.addr = clint_addr, !.plic.addr = clint_addr]

\* variant: mswi.addr += clint_addr
MswiAddrStore_Add(r, clint_addr) ==
  [r EXCEPT !.mswi.addr = Add64(r.mswi.addr, clint_addr)]

\* line 96: mswi.addr = clint_addr
MswiAddrStore(r, clint_addr) ==
  [r EXCEPT !.mswi.addr = clint_addr]

\* variant: CLINT_MTIMER_OFFSET left out of the time-register address
MtimeAddr_NoClintOffset(clint_addr) ==
  Add64(clint_addr, Off(ACLINT_DEFAULT_MTIME_OFFSET))

\* lines 97-98
MtimeAddr(clint_addr) ==
  Add64(Add64(clint_addr, Off(CLINT_MTIMER_OFFSET)),
        Off(ACLINT_DEFAULT_MTIME_OFFSET))

\* variant: CLINT_MTIMER_OFFSET left out of the time-compare address
MtimecmpAddr_NoClintOffset(clint_addr) ==
  Add64(clint_addr, Off(ACLINT_DEFAULT_MTIMECMP_OFFSET))

\* variant: the time-register offset used for the time-compare address
MtimecmpAddr_MtimeOffset(clint_addr) ==
  Add64(Add64(clint_addr, Off(CLINT_MTIMER_OFFSET)),
        Off(ACLINT_DEFAULT_MTIME_OFFSET))

\* lines 99-100
MtimecmpAddr(clint_addr) ==
  Add64(Add64(clint_addr, Off(CLINT_MTIMER_OFFSET)),
        Off(ACLINT_DEFAULT_MTIMECMP_OFFSET))

MtimeAddrStore(r, clint_addr) ==
  [r EXCEPT !.mtimer.mtime_addr = MtimeAddr(clint_addr)]

MtimecmpAddrStore(r, clint_addr) ==
  [r EXCEPT !.mtimer.mtimecmp_addr = MtimecmpAddr(clint_addr)]

\* variant: return rc
EarlyReturnValue_Rc(r) == r

\* line 103: return 0, whatever rc holds
EarlyReturnValue(r) == 0

\* the whole body of iob_soc_early_init on the cold boot pass, as one function
\* of the registry and the device tree
OverrideResolver(r, f) ==
  LET r1 == UartOverride(r, fdt_parse_uart8250(f))
      r2 == PlicOverride(r1, fdt_parse_plic(f))
      r3 == FreqOverride(r2, fdt_parse_timebase_frequency(f))
      c  == fdt_parse_compat_addr(f)
  IN  IF Accept(c.rc)
        THEN MtimecmpAddrStore(MtimeAddrStore(MswiAddrStore(r3, c.val), c.val), c.val)
        ELSE r3

HookFrame ==
  UNCHANGED <<fdt, coldHart, coldCalls, coldDone, coldOk, warmCalls, warmRet,
              plicCtx, consoleCalls, consoleArgs, fixups, ret>>

\* a step of early_init on hart h that called decoder tag, got d, and moved
\* the registry to r2
EarlyStep(h, tag, d, r2, next) ==
  /\ rc' = [rc EXCEPT ![h] = d.rc]
  /\ parsed' = [parsed EXCEPT ![h] = @ \cup {tag}]
  /\ reg' = r2
  /\ writers' = IF Accept(d.rc) THEN writers \cup {h} ELSE writers
  /\ pc' = [pc EXCEPT ![h] = At("early", next)]
  /\ UNCHANGED <<result, earlyCalls>>
  /\ HookFrame

\* lines 70-80: entry; a warm pass returns 0 at once
EarlyInitEnter(h) ==
  /\ IF EarlyRuns(h = coldHart)
       THEN /\ pc' = [pc EXCEPT ![h] = At("early", "uart")]
            /\ UNCHANGED result
       ELSE /\ pc' = [pc EXCEPT ![h] = At("early", "done")]
            /\ result' = [result EXCEPT ![h] = 0]
  /\ earlyCalls' = [earlyCalls EXCEPT ![h] = @ + 1]
  /\ UNCHANGED <<rc, parsed, reg, writers>>
  /\ HookFrame

\* the call the host makes once per hart, before any device bring-up
EarlyInitCall(h) ==
  /\ HostMayCall(h, "early")
  /\ EarlyInitEnter(h)

\* a further call on the cold-boot hart, with the same device tree, right
\* after the previous one returned (the host makes no such call; it is
\* part of SpecRerun only)
EarlyInitRecall(h) ==
  /\ h = coldHart
  /\ pc[h] = At("early", "done")
  /\ earlyCalls[h] < MaxEarlyCalls
  /\ EarlyInitEnter(h)

EarlyParseUart(h) ==
  /\ pc[h] = At("early", "uart")
  /\ LET d == fdt_parse_uart8250(fdt)
     IN  EarlyStep(h, "uart", d, UartOverride(reg, d), "plic")

EarlyParsePlic(h) ==
  /\ pc[h] = At("early", "plic")
  /\ LET d == fdt_parse_plic(fdt)
     IN  EarlyStep(h, "plic", d, PlicOverride(reg, d), "freq")

EarlyParseFreq(h) ==
  /\ pc[h] = At("early", "freq")
  /\ LET d == fdt_parse_timebase_frequency(fdt)
     IN  EarlyStep(h, "freq", d, FreqOverride(reg, d), "clint")

\* lines 94-96: the decoder call and, on success, the first of the three stores
EarlyParseClint(h) ==
  /\ pc[h] = At("early", "clint")
  /\ LET d == fdt_parse_compat_addr(fdt)
     IN  IF Accept(d.rc)
           THEN EarlyStep(h, "clint", d, MswiAddrStore(reg, d.val), "mtime")
           ELSE EarlyStep(h, "clint", d, reg, "return")

\* lines 97-98
EarlyStoreMtime(h) ==
  /\ pc[h] = At("early", "mtime")
  /\ reg' = MtimeAddrStore(reg, fdt_parse_compat_addr(fdt).val)
  /\ pc' = [pc EXCEPT ![h] = At("early", "mtimecmp")]
  /\ UNCHANGED <<rc, parsed, writers, result, earlyCalls>>
  /\ HookFrame

\* lines 99-100
EarlyStoreMtimecmp(h) ==
  /\ pc[h] = At("early", "mtimecmp")
  /\ reg' = MtimecmpAddrStore(reg, fdt_parse_compat_addr(fdt).val)
  /\ pc' = [pc EXCEPT ![h] = At("early", "return")]
  /\ UNCHANGED <<rc, parsed, writers, result, earlyCalls>>
  /\ HookFrame

\* line 103
EarlyReturn(h) ==
  /\ pc[h] = At("early", "return")
  /\ result' = [result EXCEPT ![h] = EarlyReturnValue(rc[h])]
  /\ pc' = [pc EXCEPT ![h] = At("early", "done")]
  /\ UNCHANGED <<rc, parsed, reg, writers, earlyCalls>>
  /\ HookFrame

iob_soc_early_init(h) ==
  \/ EarlyInitCall(h)
  \/ EarlyParseUart(h)
  \/ EarlyParsePlic(h)
  \/ EarlyParseFreq(h)
  \/ EarlyParseClint(h)
  \/ EarlyStoreMtime(h)
  \/ EarlyStoreMtimecmp(h)
  \/ EarlyReturn(h)

(***************************************************************************)
(* iob_soc_final_init (lines 109-119).                                     *)
(***************************************************************************)
\* variant: the cold_boot test of line 112 is missing
FinalRuns_Always(cold_boot) == TRUE

\* lines 112-113: fdt_fixups is reached on the cold boot pass only
FinalRuns(cold_boot) == cold_boot

iob_soc_final_init(h) ==
  /\ HostMayCall(h, "final")
  /\ fixups' = IF FinalRuns(h = coldHart) THEN fixups + 1 ELSE fixups
  /\ result' = [result EXCEPT ![h] = 0]
  /\ pc' = [pc EXCEPT ![h] = At("final", "done")]
  /\ UNCHANGED <<earlyCalls, fdt, coldHart, reg, rc, ret, parsed, writers, coldCalls,
                 coldDone, coldOk, warmCalls, warmRet, plicCtx, consoleCalls,
                 consoleArgs>>

(***************************************************************************)
(* iob_soc_console_init (lines 124-128).                                   *)
(***************************************************************************)
\* lines 126-127: the first three arguments of uart8250_init
ConsoleArgs(r) ==
  [base |-> IOB_SOC_UART_ADDR,
   in_freq |-> IOB_SOC_UART_INPUT_FREQ,
   baudrate |-> IOB_SOC_UART_BAUDRATE]

iob_soc_console_init(h) ==
  /\ HostMayCall(h, "console")
  /\ \E r \in DriverRets :
       /\ consoleCalls' = consoleCalls + 1
       /\ consoleArgs' = ConsoleArgs(reg)
       /\ result' = [result EXCEPT ![h] = r]
  /\ pc' = [pc EXCEPT ![h] = At("console", "done")]
  /\ UNCHANGED <<earlyCalls, fdt, coldHart, reg, rc, ret, parsed, writers, coldCalls,
                 coldDone, coldOk, warmCalls, warmRet, plicCtx, fixups>>

(***************************************************************************)
(* iob_soc_irqchip_init, iob_soc_ipi_init, iob_soc_timer_init              *)
(* (lines 133-175): the three hooks have the same shape; s names the       *)
(* subsystem.                                                              *)
(***************************************************************************)
\* variant: if (!cold_boot)
HookEntry_Inverted(cold_boot) == IF cold_boot THEN "warm" ELSE "cold"

\* variant: the cold initializer is called whatever cold_boot is
HookEntry_AlwaysCold(cold_boot) == "cold"

\* lines 138, 153, 168: if (cold_boot) the cold initializer is called first
HookEntry(cold_boot) == IF cold_boot THEN "cold" ELSE "warm"

\* variant: the result of the cold initializer is not tested
AfterCold_Ignore(r) == "warm"

\* variant: return ret, whatever ret is
AfterCold_AlwaysReturn(r) == "done"

\* lines 140-141, 155-156, 170-171: if (ret) return ret
AfterCold(r) == IF r # 0 THEN "done" ELSE "warm"

\* lines 144, 159, 174: the hook returns what the warm initializer returned
HookReturn(w) == w

\* variant: hartid and hartid + 1 in place of 2 * hartid and 2 * hartid + 1
PlicContexts_Unscaled(hartid) == <<hartid, hartid + 1>>

\* line 144: the context ids of hart hartid (u32 arithmetic; hart ids stay
\* far below 2^31, so neither product nor sum wraps)
PlicContexts(hartid) == <<2 * hartid, 2 * hartid + 1>>

\* the hook is entered; on the cold boot pass the cold initializer is called
\* with the address of the subsystem's record
HookCall(h, s) ==
  /\ HostMayCall(h, s)
  /\ LET place == HookEntry(h = coldHart)
     IN  /\ pc' = [pc EXCEPT ![h] = At(s, place)]
         /\ coldCalls' = IF place = "cold"
                           THEN [coldCalls EXCEPT ![s] = @ + 1]
                           ELSE coldCalls
  /\ ret' = [ret EXCEPT ![h] = 0]
  /\ UNCHANGED <<earlyCalls, fdt, coldHart, reg, rc, result, parsed, writers, coldDone,
                 coldOk, warmCalls, warmRet, plicCtx, consoleCalls,
                 consoleArgs, fixups>>

\* the cold initializer returns r
ColdReturn(h, s) ==
  /\ pc[h] = At(s, "cold")
  /\ \E r \in DriverRets :
       /\ ret' = [ret EXCEPT ![h] = r]
       /\ coldDone' = [coldDone EXCEPT ![s] = TRUE]
       /\ coldOk' = [coldOk EXCEPT ![s] = @ \/ (r = 0)]
       /\ pc' = [pc EXCEPT ![h] = At(s, AfterCold(r))]
       /\ result' = IF AfterCold(r) = "done"
                      THEN [result EXCEPT ![h] = r]
                      ELSE result
  /\ UNCHANGED <<earlyCalls, fdt, coldHart, reg, rc, parsed, writers, coldCalls,
                 warmCalls, warmRet, plicCtx, consoleCalls, consoleArgs,
                 fixups>>

\* the warm initializer is called and returns r, which the hook returns
WarmCall(h, s) ==
  /\ pc[h] = At(s, "warm")
  /\ \E r \in DriverRets :
       /\ warmRet' = [warmRet EXCEPT ![h] = r]
       /\ result' = [result EXCEPT ![h] = HookReturn(r)]
  /\ warmCalls' = [warmCalls EXCEPT ![h][s] = @ + 1]
  /\ plicCtx' = IF s = "irqchip"
                  THEN [plicCtx EXCEPT ![h] = PlicContexts(h)]
                  ELSE plicCtx
  /\ pc' = [pc EXCEPT ![h] = At(s, "done")]
  /\ UNCHANGED <<earlyCalls, fdt, coldHart, reg, rc, ret, parsed, writers, coldCalls,
                 coldDone, coldOk, consoleCalls, consoleArgs, fixups>>

iob_soc_irqchip_init(h) ==
  \/ HookCall(h, "irqchip")
  \/ ColdReturn(h, "irqchip")
  \/ WarmCall(h, "irqchip")

iob_soc_ipi_init(h) ==
  \/ HookCall(h, "ipi")
  \/ ColdReturn(h, "ipi")
  \/ WarmCall(h, "ipi")

iob_soc_timer_init(h) ==
  \/ HookCall(h, "timer")
  \/ ColdReturn(h, "timer")
  \/ WarmCall(h, "timer")

(***************************************************************************)
(* The boot session: the harts run their hooks in any interleaving.        *)
(***************************************************************************)
Next ==
  \E h \in Harts :
    \/ iob_soc_early_init(h)
    \/ iob_soc_final_init(h)
    \/ iob_soc_console_init(h)
    \/ iob_soc_irqchip_init(h)
    \/ iob_soc_ipi_init(h)
    \/ iob_soc_timer_init(h)

Spec == Init /\ [][Next]_vars

(***************************************************************************)
(* The boot session of a host that may call early_init on the cold-boot    *)
(* hart more than once.                                                    *)
(***************************************************************************)
NextRerun ==
  \/ Next
  \/ \E h \in Harts : EarlyInitRecall(h)

SpecRerun == Init /\ [][NextRerun]_vars

(***************************************************************************)
(* The boot session in which a hart that is inside a hook goes on: the     *)
(* hooks are straight-line code that neither blocks nor waits, and the     *)
(* driver entry points return.                                             *)
(***************************************************************************)
InHookStep(h) ==
  \E s \in Subsystems : ColdReturn(h, s) \/ WarmCall(h, s)

FairSpec == Spec /\ \A h \in Harts : WF_vars(InHookStep(h))

(***************************************************************************)
(* Vocabulary of the properties.                                           *)
(***************************************************************************)
AllDone == \A h \in Harts : pc[h] = At("final", "done")

\* hart h is inside the body of iob_soc_early_init (between entry and return)
InEarlyBody(h) == pc[h].hook = "early" /\ pc[h].at # "done"

\* the cold-boot hart's iob_soc_early_init has returned
EarlyDone == pc[coldHart].hook # "boot" /\ ~InEarlyBody(coldHart)

Decoded(d) == d.rc = 0

UartArgsOf(u) == [base |-> u.addr, in_freq |-> u.freq, baudrate |-> u.baud]

(***************************************************************************)
(* C1: whenever uart8250_init has been called, the base address, input     *)
(* clock frequency and baud rate it was given are those of the registry's  *)
(* serial record (the decoded record when the serial node decoded, the     *)
(* compiled default otherwise).  The registry does not change once         *)
(* early_init has returned, so the record at the call is the current one.  *)
(***************************************************************************)
C1_ConsoleUsesRegistry ==
  consoleCalls > 0 => consoleArgs = UartArgsOf(reg.uart)

(***************************************************************************)
(* C2: once early_init has returned on the cold-boot hart, each of the     *)
(* four records is either equal to its compiled default or has every field *)
(* taken from the device tree.  The size, first_hartid and hart_count of   *)
(* mswi and the sizes, hart fields and has_64bit_mmio of mtimer have no    *)
(* device-tree source.                                                     *)
(***************************************************************************)
UartFromDt(u) == u \in DtUartValues

PlicFromDt(p) == p \in DtPlicValues

MswiFromDt(m) == FALSE

MtimerFromDt(t) == FALSE

C2_RecordsAtomic ==
  EarlyDone =>
    /\ reg.uart = DefaultUart \/ UartFromDt(reg.uart)
    /\ reg.plic = DefaultPlic \/ PlicFromDt(reg.plic)
    /\ reg.mswi = DefaultMswi \/ MswiFromDt(reg.mswi)
    /\ reg.mtimer = DefaultMtimer \/ MtimerFromDt(reg.mtimer)

(***************************************************************************)
(* C2 as amended: once early_init has returned on the cold-boot hart, the  *)
(* serial and the interrupt-controller record are each either the compiled *)
(* default or the decoded record as a whole; the mswi record differs from  *)
(* its default in addr at most; the mtimer record differs from its default *)
(* in mtime_freq, mtime_addr and mtimecmp_addr at most, where the two      *)
(* addresses are overridden together and independently of mtime_freq.      *)
(***************************************************************************)
C2_Amended ==
  EarlyDone =>
    /\ reg.uart = DefaultUart \/ UartFromDt(reg.uart)
    /\ reg.plic = DefaultPlic \/ PlicFromDt(reg.plic)
    /\ reg.mswi = [DefaultMswi EXCEPT !.addr = reg.mswi.addr]
    /\ reg.mtimer = [DefaultMtimer EXCEPT !.mtime_freq = reg.mtimer.mtime_freq,
                                          !.mtime_addr = reg.mtimer.mtime_addr,
                                          !.mtimecmp_addr = reg.mtimer.mtimecmp_addr]
    /\ (reg.mtimer.mtime_addr = DefaultMtimer.mtime_addr)
         <=> (reg.mtimer.mtimecmp_addr = DefaultMtimer.mtimecmp_addr)
    /\ (reg.mtimer.mtime_addr = DefaultMtimer.mtime_addr)
         <=> (reg.mswi.addr = DefaultMswi.addr)

\* the timer record holds a device-tree frequency next to default addresses
C2_Witness ==
  /\ EarlyDone
  /\ reg.mtimer.mtime_freq \in DtFreqValues
  /\ reg.mtimer.mtime_addr = DefaultMtimer.mtime_addr
  /\ reg.uart \in DtUartValues

(***************************************************************************)
(* C3: a warm initializer call for a subsystem is issued, by any hart,     *)
(* only when a cold initializer call for that subsystem has returned and   *)
(* none is in progress.                                                    *)
(***************************************************************************)
ColdRunning(s) == \E g \in Harts : pc[g] = At(s, "cold")

C3_ColdBeforeWarm ==
  [][\A h \in Harts : \A s \in Subsystems :
       warmCalls'[h][s] > warmCalls[h][s] => coldDone[s] /\ ~ColdRunning(s)]_vars

\* the cold-boot hart and another hart have both done the timer's warm call
C3_Witness ==
  \E h \in Harts :
    /\ h # coldHart
    /\ warmCalls[h]["timer"] = 1
    /\ warmCalls[coldHart]["timer"] = 1

(***************************************************************************)
(* C4: every step in which a hart hands a registry record to a driver      *)
(* (a cold or warm initializer call, the console initialisation) is taken  *)
(* when the cold-boot hart's early_init has returned and no hart is inside *)
(* the body of early_init.                                                 *)
(***************************************************************************)
ReadStep ==
  \/ coldCalls' # coldCalls
  \/ warmCalls' # warmCalls
  \/ consoleCalls' # consoleCalls

C4_ReadsAfterWrites ==
  [][ReadStep => EarlyDone /\ \A g \in Harts : ~InEarlyBody(g)]_vars

\* a hart other than the cold-boot hart has read the interrupt-controller
\* record after early_init overrode the registry
C4_Witness ==
  \E h \in Harts :
    /\ h # coldHart
    /\ warmCalls[h]["irqchip"] = 1
    /\ coldHart \in writers
    /\ reg # DefaultReg

(***************************************************************************)
(* C5: only the cold-boot hart ever stores into the registry, it does so   *)
(* only inside early_init, and once its early_init has returned no step of *)
(* any hook on any hart changes any of the four records.                   *)
(***************************************************************************)
C5_OnlyColdEarlyWrites ==
  /\ [](writers \subseteq {coldHart})
  /\ [][reg' # reg => InEarlyBody(coldHart)]_vars
  /\ [][EarlyDone => reg' = reg]_vars

\* every hook has run on every hart and the registry still holds the override
C5_Witness ==
  /\ AllDone
  /\ writers = {coldHart}
  /\ reg = OverrideResolver(DefaultReg, fdt)
  /\ reg # DefaultReg

(***************************************************************************)
(* C6: when no decoder succeeds (no device tree, or none of the            *)
(* recognised compatibility tags), the registry after early_init equals    *)
(* the compiled defaults in all four records; in particular the serial     *)
(* record is {0xF4000000, 100000000, 115200} and the timer's tick          *)
(* frequency is 100000000.                                                 *)
(***************************************************************************)
NoDeviceTree ==
  /\ ~Decoded(fdt.uart)
  /\ ~Decoded(fdt.plic)
  /\ ~Decoded(fdt.freq)
  /\ ~Decoded(fdt.clint)

SerialOnly ==
  /\ Decoded(fdt.uart)
  /\ ~Decoded(fdt.plic)
  /\ ~Decoded(fdt.freq)
  /\ ~Decoded(fdt.clint)

C7_NoCrossContamination ==
  EarlyDone =>
    /\ reg.uart = IF Decoded(fdt.uart) THEN fdt.uart.val ELSE DefaultUart
    /\ reg.plic = IF Decoded(fdt.plic) THEN fdt.plic.val ELSE DefaultPlic
    /\ ~Decoded(fdt.clint) => reg.mswi = DefaultMswi
    /\ (~Decoded(fdt.freq) /\ ~Decoded(fdt.clint)) => reg.mtimer = DefaultMtimer
    /\ SerialOnly =>
         /\ reg.uart = fdt.uart.val
         /\ reg.plic = DefaultPlic
         /\ reg.mswi = DefaultMswi
         /\ reg.mtimer = DefaultMtimer

C7_Witness ==
  /\ SerialOnly
  /\ EarlyDone
  /\ reg.uart = fdt.uart.val
  /\ reg.uart # DefaultUart

(***************************************************************************)
(* C8: for every device tree that supplies a combined base B, after        *)
(* early_init mswi.addr is B, mtimer.mtime_addr is exactly                 *)
(* B + CLINT_MTIMER_OFFSET + ACLINT_DEFAULT_MTIME_OFFSET,                  *)
(* mtimer.mtimecmp_addr is exactly                                         *)
(* B + CLINT_MTIMER_OFFSET + ACLINT_DEFAULT_MTIMECMP_OFFSET, and plic.addr *)
(* is the compiled default 0xFC000000.                                     *)
(***************************************************************************)
\* the sum b + CLINT_MTIMER_OFFSET + o fits in 64 bits
SumFits(b, o) ==
  /\ ~Carry64(b, Off(CLINT_MTIMER_OFFSET))
  /\ ~Carry64(Add64(b, Off(CLINT_MTIMER_OFFSET)), Off(o))

SumOf(b, o) == Add64(Add64(b, Off(CLINT_MTIMER_OFFSET)), Off(o))

C8_SharedAnchor ==
  (EarlyDone /\ Decoded(fdt.clint)) =>
    LET B == fdt.clint.val
    IN  /\ reg.mswi.addr = B
        /\ SumFits(B, ACLINT_DEFAULT_MTIME_OFFSET)
        /\ reg.mtimer.mtime_addr = SumOf(B, ACLINT_DEFAULT_MTIME_OFFSET)
        /\ SumFits(B, ACLINT_DEFAULT_MTIMECMP_OFFSET)
        /\ reg.mtimer.mtimecmp_addr = SumOf(B, ACLINT_DEFAULT_MTIMECMP_OFFSET)
        /\ reg.plic.addr = U64(0, 0, 64512, 0)

(***************************************************************************)
(* C8 as amended: for every device tree that supplies a combined base B,   *)
(* after early_init mswi.addr is B and the two timer addresses are B plus  *)
(* the fixed offsets, computed modulo 2^64; plic.addr is not derived from  *)
(* B: it is the address of the decoded interrupt-controller node when that *)
(* node decoded and the compiled default 0xFC000000 otherwise.             *)
(***************************************************************************)
C8_Amended ==
  (EarlyDone /\ Decoded(fdt.clint)) =>
    LET B == fdt.clint.val
    IN  /\ reg.mswi.addr = B
        /\ reg.mtimer.mtime_addr = SumOf(B, ACLINT_DEFAULT_MTIME_OFFSET)
        /\ reg.mtimer.mtimecmp_addr = SumOf(B, ACLINT_DEFAULT_MTIMECMP_OFFSET)
        /\ reg.plic.addr = IF Decoded(fdt.plic)
                             THEN fdt.plic.val.addr
                             ELSE U64(0, 0, 64512, 0)

\* a combined base at 0xE0000000 next to a decoded interrupt-controller node
C8_Witness ==
  /\ EarlyDone
  /\ Decoded(fdt.clint)
  /\ Decoded(fdt.plic)
  /\ fdt.clint.val = U64(0, 0, 57344, 0)
  /\ reg.mswi.addr = U64(0, 0, 57344, 0)
  /\ reg.mtimer.mtime_addr = U64(0, 0, 57344, 49144)
  /\ reg.mtimer.mtimecmp_addr = U64(0, 0, 57344, 16384)

(***************************************************************************)
(* C9: early_init returns 0 on every hart, whatever the decoders answer;   *)
(* on the cold boot pass all four decoders have been called by then; and   *)
(* what a failed decoder would have overridden is as it was before the     *)
(* call (the compiled default): the serial record, the                     *)
(* interrupt-controller record, the tick frequency, the mswi address and   *)
(* the two timer addresses.                                                *)
(***************************************************************************)
C9_OverrideMissNonFatal ==
  \A h \in Harts :
    pc[h] = At("early", "done") =>
      /\ result[h] = 0
      /\ h = coldHart =>
           /\ parsed[h] = {"uart", "plic", "freq", "clint"}
           /\ ~Decoded(fdt.uart) => reg.uart = DefaultUart
           /\ ~Decoded(fdt.plic) => reg.plic = DefaultPlic
           /\ ~Decoded(fdt.freq) =>
                reg.mtimer.mtime_freq = DefaultMtimer.mtime_freq
           /\ ~Decoded(fdt.clint) =>
                /\ reg.mswi = DefaultMswi
                /\ reg.mtimer.mtime_addr = DefaultMtimer.mtime_addr
                /\ reg.mtimer.mtimecmp_addr = DefaultMtimer.mtimecmp_addr
           /\ (~Decoded(fdt.freq) /\ ~Decoded(fdt.clint)) =>
                reg.mtimer = DefaultMtimer

\* early_init has returned although the serial node and the combined base
\* failed to decode, after a successful interrupt-controller decode
C9_Witness ==
  /\ pc[coldHart] = At("early", "done")
  /\ result[coldHart] = 0
  /\ rc[coldHart] # 0
  /\ ~Decoded(fdt.uart)
  /\ Decoded(fdt.plic)
  /\ reg.plic = fdt.plic.val

(***************************************************************************)
(* C10: when a hook of irqchip/ipi/timer has returned on hart h: if h is   *)
(* the cold-boot hart and the cold initializer returned r # 0, the hook    *)
(* returned r and the warm initializer was not called on h; otherwise the  *)
(* hook returned what the warm initializer returned, after exactly one     *)
(* warm call.  No initializer is called twice, and no step of these hooks  *)
(* undoes an earlier effect: the call counts never decrease and the        *)
(* registry is left alone.                                                 *)
(***************************************************************************)
HookReturned(h, s) == pc[h] = At(s, "done")

ColdFailed(h) == h = coldHart /\ ret[h] # 0

C10_State ==
  /\ \A h \in Harts : \A s \in Subsystems :
       /\ warmCalls[h][s] <= 1
       /\ HookReturned(h, s) =>
            IF ColdFailed(h)
              THEN result[h] = ret[h] /\ warmCalls[h][s] = 0
              ELSE result[h] = warmRet[h] /\ warmCalls[h][s] = 1
  /\ \A s \in Subsystems : coldCalls[s] <= 1

InSubsystemHook == \E h \in Harts : pc'[h].hook \in Subsystems

C10_FailFast ==
  /\ []C10_State
  /\ [][InSubsystemHook =>
          /\ reg' = reg
          /\ \A s \in Subsystems : coldCalls'[s] >= coldCalls[s]
          /\ \A h \in Harts : \A s \in Subsystems :
               warmCalls'[h][s] >= warmCalls[h][s]]_vars

\* the cold initializer of the interrupt controller failed with -3 on the
\* cold-boot hart and the hook returned -3 without a warm call
C10_Witness ==
  /\ HookReturned(coldHart, "irqchip")
  /\ ret[coldHart] = -3
  /\ result[coldHart] = -3
  /\ warmCalls[coldHart]["irqchip"] = 0
  /\ coldCalls["irqchip"] = 1

(***************************************************************************)
(* C11: on every hart, cold-boot hart or not, the warm phase of            *)
(* irqchip_init has passed to plic_warm_irqchip_init the context ids       *)
(* (2h, 2h+1) of its own hart id h, whatever the device tree and the       *)
(* registry hold.  Hart 3 is given (6, 7).                                 *)
(***************************************************************************)
C11_ContextIds ==
  \A h \in Harts :
    warmCalls[h]["irqchip"] > 0 =>
      /\ plicCtx[h] = <<2 * h, 2 * h + 1>>
      /\ PlicContexts(3) = <<6, 7>>

\* the last hart, which is not the cold-boot hart, has been given its two
\* context ids while the registry holds a device-tree override
C11_Witness ==
  /\ coldHart # NumHarts - 1
  /\ warmCalls[NumHarts - 1]["irqchip"] = 1
  /\ plicCtx[NumHarts - 1] = <<2 * (NumHarts - 1), 2 * (NumHarts - 1) + 1>>
  /\ warmCalls[coldHart]["irqchip"] = 1
  /\ reg.plic # DefaultPlic

(***************************************************************************)
(* C12: when early_init is run again on the cold-boot hart with the same   *)
(* device tree, no step of the second (or a later) run changes any of the  *)
(* four records, and at its return the registry is what the first run      *)
(* left: the override applied once to the compiled defaults.               *)
(***************************************************************************)
Rerunning == earlyCalls[coldHart] >= 2

C12_Idempotent ==
  /\ [][Rerunning => reg' = reg]_vars
  /\ [](Rerunning => reg = OverrideResolver(DefaultReg, fdt))
  /\ []((earlyCalls[coldHart] = 1 /\ EarlyDone)
          => reg = OverrideResolver(DefaultReg, fdt))

\* a second run has returned with every decoder successful and the boot
\* went on to its end
C12_Witness ==
  /\ earlyCalls[coldHart] = 2
  /\ AllDone
  /\ Decoded(fdt.uart)
  /\ Decoded(fdt.plic)
  /\ Decoded(fdt.freq)
  /\ Decoded(fdt.clint)
  /\ reg.mswi.addr = fdt.clint.val

(***************************************************************************)
(* Regions.  A region is <<base, size>> with size < 2^16; the serial and   *)
(* the interrupt-controller record carry no size, and are taken as the one *)
(* byte at their base address, the least any device occupies.              *)
(***************************************************************************)
\* a - b modulo 2^64
Sub64(a, b) ==
  LET d0 == a[4] - b[4]
      d1 == a[3] - b[3] + (d0 \div LIMB)
      d2 == a[2] - b[2] + (d1 \div LIMB)
      d3 == a[1] - b[1] + (d2 \div LIMB)
  IN  U64(d3 % LIMB, d2 % LIMB, d1 % LIMB, d0 % LIMB)

Less64(a, b) ==
  \/ a[1] < b[1]
  \/ a[1] = b[1] /\ a[2] < b[2]
  \/ a[1] = b[1] /\ a[2] = b[2] /\ a[3] < b[3]
  \/ a[1] = b[1] /\ a[2] = b[2] /\ a[3] = b[3] /\ a[4] < b[4]

\* address x lies in [g[1], g[1] + g[2])
InRegion(x, g) == Less64(Sub64(x, g[1]), Off(g[2]))

Overlap(g1, g2) == InRegion(g1[1], g2) \/ InRegion(g2[1], g1)

SerialRegion(r) == <<r.uart.addr, 1>>
PlicRegion(r) == <<r.plic.addr, 1>>
MswiRegion(r) == <<r.mswi.addr, r.mswi.size>>
MtimeRegion(r) == <<r.mtimer.mtime_addr, r.mtimer.mtime_size>>
MtimecmpRegion(r) == <<r.mtimer.mtimecmp_addr, r.mtimer.mtimecmp_size>>

AllRegions(r) ==
  <<SerialRegion(r), PlicRegion(r), MswiRegion(r), MtimeRegion(r),
    MtimecmpRegion(r)>>

PairwiseDisjoint(gs) ==
  \A i \in 1 .. Len(gs) : \A j \in 1 .. Len(gs) :
    i < j => ~Overlap(gs[i], gs[j])

(***************************************************************************)
(* C13: for every device tree, once early_init has completed, the regions  *)
(* of the serial device, the interrupt controller, the mswi device, the    *)
(* time register and the time-compare register do not overlap one another. *)
(***************************************************************************)
C13_RegionsDisjoint ==
  EarlyDone => PairwiseDisjoint(AllRegions(reg))

(***************************************************************************)
(* C13 as amended: once early_init has completed, the mswi region, the     *)
(* time-compare region and the time register, which are laid out from one  *)
(* anchor, do not overlap one another, whatever the device tree holds; and *)
(* all five regions are pairwise disjoint when no address came from the    *)
(* device tree.  Addresses taken from the device tree are stored as they   *)
(* are, and may overlap the regions of the other subsystems.               *)
(***************************************************************************)
C13_Amended ==
  EarlyDone =>
    /\ PairwiseDisjoint(<<MswiRegion(reg), MtimeRegion(reg), MtimecmpRegion(reg)>>)
    /\ (~Decoded(fdt.uart) /\ ~Decoded(fdt.plic) /\ ~Decoded(fdt.clint))
         => PairwiseDisjoint(AllRegions(reg))

\* a combined base at 0xF3FFC000 has put the time-compare registers on the
\* compiled serial address
C13_Witness ==
  /\ EarlyDone
  /\ Decoded(fdt.clint)
  /\ ~Decoded(fdt.uart)
  /\ reg.mtimer.mtimecmp_addr = reg.uart.addr
  /\ reg.mswi.addr = U64(0, 0, 62463, 49152)

(***************************************************************************)
(* C14: over the whole boot session, with each hook called once per hart   *)
(* and cold_boot true on exactly one hart, the cold initializer of each    *)
(* subsystem is called at most once in all and the warm initializer of     *)
(* each subsystem at most once on each hart, whether or not an initializer *)
(* fails; a hart other than the cold-boot hart is never inside a cold      *)
(* initializer.                                                            *)
(***************************************************************************)
C14_CallMultiplicity ==
  /\ \A s \in Subsystems : coldCalls[s] <= 1
  /\ \A h \in Harts : \A s \in Subsystems : warmCalls[h][s] <= 1
  /\ \A h \in Harts : \A s \in Subsystems :
       pc[h] = At(s, "cold") => h = coldHart

\* the session is over: every cold initializer ran once, every warm
\* initializer once on every hart
C14_Witness ==
  /\ AllDone
  /\ \A s \in Subsystems : coldCalls[s] = 1
  /\ \A h \in Harts : \A s \in Subsystems : warmCalls[h][s] = 1

(***************************************************************************)
(* C15: for each of the irqchip, ipi and timer hooks, a hart is            *)
(* NotStarted until an initializer of the hook has completed on it,        *)
(* ColdDone once the cold initializer has returned 0 on it, and WarmDone   *)
(* once the warm initializer has been run on it.  The cold-boot hart moves *)
(* NotStarted -> ColdDone -> WarmDone only, every other hart               *)
(* NotStarted -> WarmDone only and is never inside a cold initializer; a   *)
(* hook that returned 0 has reached WarmDone; and every hart inside a hook *)
(* eventually reaches WarmDone for it, unless the hook returns a failure:  *)
(* a hart leaves the inside of a hook only WarmDone for that hook or with  *)
(* a failure code, and a hart inside a hook eventually leaves it.          *)
(***************************************************************************)
Phase(h, s) ==
  IF warmCalls[h][s] > 0 THEN "WarmDone"
  ELSE IF h = coldHart /\ pc[h] = At(s, "warm") THEN "ColdDone"
  ELSE "NotStarted"

PhaseStep(h, s) ==
  LET p == Phase(h, s)
      q == Phase(h, s)'
  IN  p # q =>
        IF h = coldHart
          THEN \/ p = "NotStarted" /\ q = "ColdDone"
               \/ p = "ColdDone" /\ q = "WarmDone"
          ELSE p = "NotStarted" /\ q = "WarmDone"

InHook(h, s) == pc[h] = At(s, "cold") \/ pc[h] = At(s, "warm")

HookFailed(h, s) == pc[h] = At(s, "done") /\ result[h] # 0

C15_PhaseProgress ==
  /\ [][\A h \in Harts : \A s \in Subsystems : PhaseStep(h, s)]_vars
  /\ [](\A h \in Harts : \A s \in Subsystems :
          /\ pc[h] = At(s, "cold") => h = coldHart
          /\ (pc[h] = At(s, "done") /\ result[h] = 0) => Phase(h, s) = "WarmDone"
          /\ (h = coldHart /\ Phase(h, s) = "WarmDone") => coldOk[s])
  /\ [][\A h \in Harts : \A s \in Subsystems :
          (InHook(h, s) /\ ~InHook(h, s)') =>
            (Phase(h, s) = "WarmDone" \/ HookFailed(h, s))']_vars
  /\ \A h \in Harts :
       (\E s \in Subsystems : InHook(h, s))
         ~> (\E s \in Subsystems :
               /\ pc[h] = At(s, "done")
               /\ Phase(h, s) = "WarmDone" \/ HookFailed(h, s))

\* nothing failed: the cold-boot hart passed ColdDone and every hart is
\* WarmDone for every subsystem
C15_Witness ==
  /\ AllDone
  /\ \A s \in Subsystems : coldOk[s]
  /\ \A h \in Harts : \A s \in Subsystems :
       Phase(h, s) = "WarmDone" /\ warmRet[h] = 0

(***************************************************************************)
(* C16: after early_init, a decoded tick frequency f is the timer's        *)
(* mtime_freq, and everything else in the registry (the serial record with *)
(* its input clock frequency, the interrupt-controller record, the mswi    *)
(* record, every other field of the timer record) is what it would be had  *)
(* the frequency decode failed.                                            *)
(***************************************************************************)
\* the device tree f with its timebase-frequency decode failing
WithoutFreq(f) == [f EXCEPT !.freq.rc = -1]

C16_FrequencyOnlyTimer ==
  (EarlyDone /\ Decoded(fdt.freq)) =>
    LET other == OverrideResolver(DefaultReg, WithoutFreq(fdt))
    IN  /\ reg.mtimer.mtime_freq = fdt.freq.val
        /\ reg.uart = other.uart
        /\ reg.plic = other.plic
        /\ reg.mswi = other.mswi
        /\ reg.mtimer = [other.mtimer EXCEPT !.mtime_freq = fdt.freq.val]
        /\ other.mtimer.mtime_freq = IOB_SOC_ACLINT_MTIMER_FREQ
        /\ reg.uart.freq \in {IOB_SOC_UART_INPUT_FREQ} \cup {u.freq : u \in DtUartValues}

\* only the tick frequency decoded: it is in the timer record, next to an
\* untouched serial input clock
C16_Witness ==
  /\ EarlyDone
  /\ Decoded(fdt.freq)
  /\ ~Decoded(fdt.uart)
  /\ ~Decoded(fdt.clint)
  /\ reg.mtimer.mtime_freq = 10000000
  /\ reg.uart.freq = 100000000
  /\ reg.mtimer.mtime_addr = DefaultMtimer.mtime_addr

(***************************************************************************)
(* C17: final_init returns 0 on every hart; fdt_fixups is called once by   *)
(* the call made with cold_boot true and not at all by a call made with    *)
(* cold_boot false; and final_init leaves the four records as they are.    *)
(***************************************************************************)
FinalReturned(h) == pc[h] = At("final", "done")

FinalStep(h) == ~FinalReturned(h) /\ FinalReturned(h)'

C17_FinalInit ==
  /\ [](\A h \in Harts : FinalReturned(h) => result[h] = 0)
  /\ [](fixups = IF FinalReturned(coldHart) THEN 1 ELSE 0)
  /\ [][\A h \in Harts :
          FinalStep(h) =>
            /\ reg' = reg
            /\ fixups' = IF h = coldHart THEN fixups + 1 ELSE fixups]_vars

\* final_init has returned on every hart, the fixups were applied once, and
\* the registry still holds the device-tree override
C17_Witness ==
  /\ AllDone
  /\ fixups = 1
  /\ \A h \in Harts : result[h] = 0
  /\ reg # DefaultReg

(***************************************************************************)
(* C18: whenever no hart is inside early_init (at every hook boundary),    *)
(* the mswi address and the two timer addresses are laid out from one      *)
(* anchor A: mswi.addr = A + CLINT_MSWI_OFFSET,                            *)
(* mtime_addr = A + CLINT_MTIMER_OFFSET + ACLINT_DEFAULT_MTIME_OFFSET,     *)
(* mtimecmp_addr = A + CLINT_MTIMER_OFFSET +                               *)
(* ACLINT_DEFAULT_MTIMECMP_OFFSET (modulo 2^64), where A is the compiled   *)
(* 0xF8000000 until a combined base has been decoded and that base         *)
(* afterwards; the distances between the three addresses are the same on   *)
(* the default and on the override path.                                   *)
(***************************************************************************)
HookBoundary == \A h \in Harts : ~InEarlyBody(h)

Anchor ==
  IF EarlyDone /\ Decoded(fdt.clint) THEN fdt.clint.val ELSE U64(0, 0, 63488, 0)

C18_CommonAnchor ==
  HookBoundary =>
    /\ reg.mswi.addr = Add64(Anchor, Off(CLINT_MSWI_OFFSET))
    /\ reg.mtimer.mtime_addr =
         Add64(Add64(Anchor, Off(CLINT_MTIMER_OFFSET)),
               Off(ACLINT_DEFAULT_MTIME_OFFSET))
    /\ reg.mtimer.mtimecmp_addr =
         Add64(Add64(Anchor, Off(CLINT_MTIMER_OFFSET)),
               Off(ACLINT_DEFAULT_MTIMECMP_OFFSET))
    /\ Sub64(reg.mtimer.mtime_addr, reg.mswi.addr)
         = Sub64(DefaultMtimer.mtime_addr, DefaultMswi.addr)
    /\ Sub64(reg.mtimer.mtimecmp_addr, reg.mswi.addr)
         = Sub64(DefaultMtimer.mtimecmp_addr, DefaultMswi.addr)

\* the override path: the anchor is the device tree's 0xE0000000 and the
\* hooks after early_init have run
C18_Witness ==
  /\ AllDone
  /\ Decoded(fdt.clint)
  /\ Anchor = U64(0, 0, 57344, 0)
  /\ reg.mswi.addr = Anchor
  /\ reg.mtimer.mtime_addr # DefaultMtimer.mtime_addr

====
